---- MODULE Spec2Model ----
(***************************************************************************)
(* plot_gptp.py: parse OMNeT++ .vec result files, concatenate the rows,    *)
(* filter them by metric and write one chart per (run, metric).            *)
(*                                                                         *)
(* Text is modelled character by character: a string is a sequence of      *)
(* one-character strings, so startswith, str.split, str.isdigit, float,    *)
(* re.search, str.replace and the ordering of sorted() are computed, not   *)
(* assumed.  A float is held in hundredths (fixed point, FloatScale).      *)
(***************************************************************************)
EXTENDS Integers, Sequences, FiniteSets, TLC

VARIABLES
    dir,        \* names of the files in args.results
    max_runs,   \* args.max_runs: [given |-> FALSE] is None
    metric,     \* args.metric: the list of patterns
    vec_files,  \* the list of .vec names to parse
    fi,         \* how many files of vec_files the generator has handed out
    read,       \* read[k]: the lines read so far from vec_files[k]
    run_name,   \* parse_vec's run_name
    id_meta,    \* parse_vec's id_meta
    rows,       \* parse_vec's rows
    frames,     \* the DataFrames parse_vec has returned, in order
    df_all,     \* the aggregated table
    df,         \* the filtered table
    groups,     \* the (run, metric) groups still to plot
    images,     \* the files written in args.outdir: name -> chart
    pc,         \* position in the script
    err         \* the exception that ended the run, "" if none

vars == <<dir, max_runs, metric, vec_files, fi, read, run_name, id_meta, rows,
          frames, df_all, df, groups, images, pc, err>>

(***************************************************************************)
(* Bounds of the model.                                                    *)
(***************************************************************************)
MaxLines == 3       \* lines read in SpecParse
MaxLoadLines == 4   \* lines read, over all files, in SpecLoad
MaxPlotLines == 4   \* lines read, over all files, in SpecPlot
MaxFiles == 2       \* .vec files in the results directory
MaxCap == 2         \* largest --max-runs

(***************************************************************************)
(* Characters and strings.                                                 *)
(***************************************************************************)
Digits == <<"0", "1", "2", "3", "4", "5", "6", "7", "8", "9">>
Uppers == <<"A", "B", "C", "D", "E", "F", "G", "H", "I", "J", "K", "L", "M",
            "N", "O", "P", "Q", "R", "S", "T", "U", "V", "W", "X", "Y", "Z">>
Lowers == <<"a", "b", "c", "d", "e", "f", "g", "h", "i", "j", "k", "l", "m",
            "n", "o", "p", "q", "r", "s", "t", "u", "v", "w", "x", "y", "z">>

IndexIn(seq, c) == CHOOSE i \in 1..Len(seq) : seq[i] = c
IsIn(seq, c) == \E i \in 1..Len(seq) : seq[i] = c

\* ord(c), for ASCII letters, digits and the punctuation the inputs use
Ord(c) ==
    IF IsIn(Digits, c) THEN 47 + IndexIn(Digits, c)
    ELSE IF IsIn(Uppers, c) THEN 64 + IndexIn(Uppers, c)
    ELSE IF IsIn(Lowers, c) THEN 96 + IndexIn(Lowers, c)
    ELSE CASE c = "\t" -> 9 [] c = "\n" -> 10 [] c = " " -> 32 [] c = "#" -> 35
           [] c = "*" -> 42 [] c = "-" -> 45 [] c = "." -> 46 [] c = ":" -> 58
           [] c = "_" -> 95 [] OTHER -> 0

IsDigit(c) == IsIn(Digits, c)
IsSpace(c) == c \in {" ", "\t", "\n"}
DigitVal(c) == IndexIn(Digits, c) - 1
Lower(c) == IF IsIn(Uppers, c) THEN Lowers[IndexIn(Uppers, c)] ELSE c

\* s.startswith(p)
StartsWith(s, p) ==
    /\ Len(s) >= Len(p)
    /\ \A i \in 1..Len(p) : s[i] = p[i]

\* s.endswith(p)
EndsWith(s, p) ==
    /\ Len(s) >= Len(p)
    /\ \A i \in 1..Len(p) : s[Len(s) - Len(p) + i] = p[i]

\* s.split(): the maximal runs of non-whitespace characters, in order
RECURSIVE SplitFrom(_, _, _, _)
SplitFrom(s, i, cur, acc) ==
    IF i > Len(s)
    THEN IF cur = <<>> THEN acc ELSE Append(acc, cur)
    ELSE IF IsSpace(s[i])
         THEN SplitFrom(s, i + 1, <<>>, IF cur = <<>> THEN acc ELSE Append(acc, cur))
         ELSE SplitFrom(s, i + 1, Append(cur, s[i]), acc)
Split(s) == SplitFrom(s, 1, <<>>, <<>>)

\* a < b for strings: by code point, a proper prefix first
StrLess(a, b) ==
    \E k \in 1..(Len(a) + 1) :
        /\ k <= Len(b)
        /\ \A j \in 1..(k - 1) : a[j] = b[j]
        /\ IF k <= Len(a) THEN Ord(a[k]) < Ord(b[k]) ELSE TRUE

(***************************************************************************)
(* float(tok), for the decimal notation [-]digits[.digits]: FloatOk says   *)
(* whether float accepts tok, FloatVal is its value in hundredths.         *)
(***************************************************************************)
FloatScale == 100

Unsigned(tok) == IF Len(tok) > 0 /\ tok[1] = "-" THEN Tail(tok) ELSE tok

FloatOk(tok) ==
    LET b == Unsigned(tok)
        dots == {i \in 1..Len(b) : b[i] = "."}
    IN  /\ Cardinality(dots) <= 1
        /\ \A i \in (1..Len(b)) \ dots : IsDigit(b[i])
        /\ \E i \in 1..Len(b) : IsDigit(b[i])

RECURSIVE DigitsVal(_)
DigitsVal(ds) ==
    IF ds = <<>> THEN 0
    ELSE 10 * DigitsVal(SubSeq(ds, 1, Len(ds) - 1)) + DigitVal(ds[Len(ds)])

FloatVal(tok) ==
    LET b == Unsigned(tok)
        dots == {i \in 1..Len(b) : b[i] = "."}
        dot == IF dots = {} THEN Len(b) + 1 ELSE CHOOSE i \in dots : TRUE
        ip == SubSeq(b, 1, dot - 1)
        fp == SubSeq(b, dot + 1, Len(b))
        f1 == IF Len(fp) >= 1 THEN DigitVal(fp[1]) ELSE 0
        f2 == IF Len(fp) >= 2 THEN DigitVal(fp[2]) ELSE 0
        mag == FloatScale * DigitsVal(ip) + 10 * f1 + f2
    IN  IF b = tok THEN mag ELSE 0 - mag

(***************************************************************************)
(* parse_vec                                                               *)
(***************************************************************************)
vectorKw == <<"v", "e", "c", "t", "o", "r">>
HeaderMinFields == 4
DataMinFields == 4

EmptyMap == [x \in {} |-> x]
MapPut(m, k, v) == [x \in (DOMAIN m) \cup {k} |-> IF x = k THEN v ELSE m[x]]

\* line.startswith("vector")
IsHeaderLine(line) == StartsWith(line, vectorKw)

\* line and line[0].isdigit()
IsDataLine(line) == Len(line) > 0 /\ IsDigit(line[1])

\* PutHeader, were an identifier's first header to win over the later ones
PutHeader_firstWins(meta, parts, run) ==
    IF Len(parts) >= HeaderMinFields /\ parts[2] \notin DOMAIN meta
    THEN MapPut(meta, parts[2],
                [module |-> parts[3], metric |-> parts[4], run |-> run])
    ELSE meta

\* PutHeader, were three fields enough (the metric read from the last one)
PutHeader_threeFields(meta, parts, run) ==
    IF Len(parts) >= HeaderMinFields - 1
    THEN MapPut(meta, parts[2],
                [module |-> parts[3], metric |-> parts[Len(parts)], run |-> run])
    ELSE meta

\* a header line's effect on id_meta: an entry for parts[1], from parts[1:4],
\* when the line has the fields for it
PutHeader(meta, parts, run) ==
    IF Len(parts) >= HeaderMinFields
    THEN MapPut(meta, parts[2],
                [module |-> parts[3], metric |-> parts[4], run |-> run])
    ELSE meta

\* AddRow, were the two floats taken before the identifier is looked up
AddRow_floatFirst(meta, rws, parts) ==
    IF Len(parts) >= DataMinFields
    THEN IF FloatOk(parts[3]) /\ FloatOk(parts[4])
         THEN IF parts[1] \in DOMAIN meta
              THEN [rows |-> Append(rws, [time   |-> FloatVal(parts[3]),
                                          value  |-> FloatVal(parts[4]),
                                          module |-> meta[parts[1]].module,
                                          metric |-> meta[parts[1]].metric,
                                          run    |-> meta[parts[1]].run]),
                    err |-> ""]
              ELSE [rows |-> rws, err |-> ""]
         ELSE [rows |-> rws, err |-> "ValueError: could not convert string to float"]
    ELSE [rows |-> rws, err |-> ""]

\* a data line's effect: a row when id_meta knows parts[0], which takes
\* float(sim_time) and float(value); err is the exception raised, "" if none
AddRow(meta, rws, parts) ==
    IF Len(parts) >= DataMinFields /\ parts[1] \in DOMAIN meta
    THEN IF FloatOk(parts[3]) /\ FloatOk(parts[4])
         THEN [rows |-> Append(rws, [time   |-> FloatVal(parts[3]),
                                     value  |-> FloatVal(parts[4]),
                                     module |-> meta[parts[1]].module,
                                     metric |-> meta[parts[1]].metric,
                                     run    |-> meta[parts[1]].run]),
               err |-> ""]
         ELSE [rows |-> rws, err |-> "ValueError: could not convert string to float"]
    ELSE [rows |-> rws, err |-> ""]

\* the body of the loop over the file's lines, for one line: the new
\* id_meta and rows, and the exception raised ("" if none)
ParseLine(meta, rws, run, line) ==
    IF IsHeaderLine(line)
    THEN [id_meta |-> PutHeader(meta, Split(line), run), rows |-> rws, err |-> ""]
    ELSE IF IsDataLine(line)
         THEN [id_meta |-> meta,
               rows |-> AddRow(meta, rws, Split(line)).rows,
               err |-> AddRow(meta, rws, Split(line)).err]
         ELSE [id_meta |-> meta, rows |-> rws, err |-> ""]

(***************************************************************************)
(* The script around parse_vec                                             *)
(***************************************************************************)
vecSuffix == <<".", "v", "e", "c">>

\* args.results.glob("*.vec")
Glob(d) == {n \in d : EndsWith(n, vecSuffix)}

\* sorted(S)
RECURSIVE Sorted(_)
Sorted(S) ==
    IF S = {} THEN <<>>
    ELSE LET m == CHOOSE x \in S : \A y \in S \ {x} : StrLess(x, y)
         IN  <<m>> \o Sorted(S \ {m})

\* s[:n]
Slice(s, n) ==
    IF n >= 0
    THEN SubSeq(s, 1, IF n < Len(s) THEN n ELSE Len(s))
    ELSE SubSeq(s, 1, IF Len(s) + n > 0 THEN Len(s) + n ELSE 0)

\* vec_files after the --max-runs cut
CapRuns(files, mr) == IF mr.given /\ mr.n # 0 THEN Slice(files, mr.n) ELSE files

\* Path.stem: the name without its last suffix
Stem(name) ==
    LET dots == {i \in 2..Len(name) : name[i] = "."}
    IN  IF dots = {} THEN name
        ELSE SubSeq(name, 1, (CHOOSE i \in dots : \A j \in dots : j <= i) - 1)

\* ConcatFrames, were the frames joined last file first
RECURSIVE ConcatFrames_lastFirst(_)
ConcatFrames_lastFirst(fs) ==
    IF fs = <<>> THEN <<>> ELSE ConcatFrames_lastFirst(Tail(fs)) \o Head(fs)

\* pd.concat(frames, ignore_index=True): the rows of the frames, in order
RECURSIVE ConcatFrames(_)
ConcatFrames(fs) == IF fs = <<>> THEN <<>> ELSE Head(fs) \o ConcatFrames(Tail(fs))

RECURSIVE TotalLen(_)
TotalLen(ss) == IF ss = <<>> THEN 0 ELSE Len(Head(ss)) + TotalLen(Tail(ss))

\* re: a pattern is a sequence of atoms (a literal character or "."),
\* each optionally followed by "*"; re.I folds case
AtomMatch(a, c) == (a = "." /\ c # "\n") \/ Lower(a) = Lower(c)

RECURSIVE MatchHere(_, _, _, _)
MatchHere(re, i, s, j) ==
    IF i > Len(re) THEN TRUE
    ELSE IF i + 1 <= Len(re) /\ re[i + 1] = "*"
         THEN \E k \in j..(Len(s) + 1) :
                 /\ \A t \in j..(k - 1) : AtomMatch(re[i], s[t])
                 /\ MatchHere(re, i + 2, s, k)
         ELSE /\ j <= Len(s)
              /\ AtomMatch(re[i], s[j])
              /\ MatchHere(re, i + 1, s, j + 1)

\* Search, were re.I left out
RECURSIVE MatchHereCased(_, _, _, _)
MatchHereCased(re, i, s, j) ==
    IF i > Len(re) THEN TRUE
    ELSE IF i + 1 <= Len(re) /\ re[i + 1] = "*"
         THEN \E k \in j..(Len(s) + 1) :
                 /\ \A t \in j..(k - 1) : (re[i] = "." \/ re[i] = s[t])
                 /\ MatchHereCased(re, i + 2, s, k)
         ELSE /\ j <= Len(s)
              /\ (re[i] = "." \/ re[i] = s[j])
              /\ MatchHereCased(re, i + 1, s, j + 1)
Search_caseSensitive(re, s) == \E j \in 1..(Len(s) + 1) : MatchHereCased(re, 1, s, j)

\* re.compile(expr, re.I).search(s)
Search(re, s) == \E j \in 1..(Len(s) + 1) : MatchHere(re, 1, s, j)

\* any(p.search(m) for p in patterns)
AnyMatch(patterns, m) == \E i \in 1..Len(patterns) : Search(patterns[i], m)

\* df_all[mask]
RECURSIVE FilterRows(_, _)
FilterRows(table, patterns) ==
    IF table = <<>> THEN <<>>
    ELSE IF AnyMatch(patterns, Head(table).metric)
         THEN <<Head(table)>> \o FilterRows(Tail(table), patterns)
         ELSE FilterRows(Tail(table), patterns)

\* the keys of df.groupby(["run", "metric"]), which sorts them
KeyLess(a, b) == StrLess(a.run, b.run) \/ (a.run = b.run /\ StrLess(a.metric, b.metric))

RECURSIVE SortedKeys(_)
SortedKeys(S) ==
    IF S = {} THEN <<>>
    ELSE LET m == CHOOSE x \in S : \A y \in S \ {x} : KeyLess(x, y)
         IN  <<m>> \o SortedKeys(S \ {m})

GroupKeys(table) ==
    SortedKeys({[run |-> table[i].run, metric |-> table[i].metric] : i \in 1..Len(table)})

\* metric.replace(':', '_')
ReplaceColon(s) == [i \in 1..Len(s) |-> IF s[i] = ":" THEN "_" ELSE s[i]]

pngSuffix == <<".", "p", "n", "g">>

\* f"{run}_{metric.replace(':','_')}.png"
FileName(run, m) == run \o <<"_">> \o ReplaceColon(m) \o pngSuffix

\* the figure of one (run, metric) group: one line per module, modules sorted
Chart(table, key) ==
    LET InGroup(r) == r.run = key.run /\ r.metric = key.metric
        grp == SelectSeq(table, InGroup)
        mods == Sorted({grp[i].module : i \in 1..Len(grp)})
        Line(mod) ==
            LET OfMod(r) == r.module = mod
                sub == SelectSeq(grp, OfMod)
            IN  [label |-> mod,
                 points |-> [i \in 1..Len(sub) |-> <<sub[i].time, sub[i].value>>]]
    IN  [title |-> key, series |-> [i \in 1..Len(mods) |-> Line(mods[i])]]

(***************************************************************************)
(* The inputs the model draws from: file names, command lines, lines.      *)
(***************************************************************************)
RECURSIVE JoinSp(_)
JoinSp(toks) ==
    IF toks = <<>> THEN <<>>
    ELSE IF Len(toks) = 1 THEN toks[1]
         ELSE toks[1] \o <<" ">> \o JoinSp(Tail(toks))

\* the text line made of the given fields
Ln(toks) == JoinSp(toks) \o <<"\n">>

id1 == <<"1">>
id2 == <<"2">>
modA == <<"m", "A">>
modB == <<"m", "B">>
metOR == <<"o", ":", "R">>
metO_R == <<"o", "_", "R">>
metGm == <<"g", "m">>
etv == <<"E">>

hdr1 == Ln(<<vectorKw, id1, modA, metOR, etv>>)      \* vector 1 mA o:R E
hdr1b == Ln(<<vectorKw, id1, modB, metGm, etv>>)     \* vector 1 mB gm E
hdr2 == JoinSp(<<vectorKw, id2, modB, metO_R>>)      \* vector 2 mB o_R, no newline
hdr2b == Ln(<<vectorKw, id2, modB, metOR, etv>>)     \* vector 2 mB o:R E
hdrShort == Ln(<<vectorKw, id1, modA>>)              \* vector 1 mA
hdrBare == Ln(<<vectorKw>>)                          \* vector
hdrPrefix == Ln(<<vectorKw \o <<"s">>, id2, modA, metGm, etv>>)  \* vectors 2 mA gm E
hdrIndent == <<" ">> \o hdr1b                        \*  vector 1 mB gm E
dat1 == Ln(<<id1, <<"0">>, <<"0", ".", "5">>, <<"1", "2", ".", "3">>>>)  \* 1 0 0.5 12.3
dat2 == Ln(<<id2, <<"7">>, <<"1">>, <<"-", "2">>, <<"9">>>>)          \* 2 7 1 -2 9
datShort == Ln(<<id1, <<"0">>, <<"0", ".", "5">>>>)                     \* 1 0 0.5
datBadTime == Ln(<<id1, <<"0">>, <<"x">>, <<"1">>>>)                    \* 1 0 x 1
datBadValue == Ln(<<id2, <<"0">>, <<"1">>, <<"x">>>>)                   \* 2 0 1 x
datIndent == <<" ">> \o dat1                                            \*  1 0 0.5 12.3
lnBlank == <<"\n">>
lnComment == Ln(<<<<"#">>, id1, <<"0">>, <<"1">>, <<"1">>>>)            \* # 1 0 1 1
lnScalar == Ln(<<<<"s", "c", "a">>, modA, metOR, <<"1">>>>)             \* sca mA o:R 1

LinePool == {hdr1, hdr1b, hdr2, hdrShort, hdrBare, hdrPrefix, hdrIndent,
             dat1, dat2, datShort, datBadTime, datBadValue, datIndent,
             lnBlank, lnComment, lnScalar}
LoadPool == {hdr1, dat1, datBadTime}
PlotPool == {hdr1, hdr2, hdr2b, dat1, dat2}

fileA == <<"a">> \o vecSuffix                   \* a.vec
fileAB == <<"a", "-", "b">> \o vecSuffix        \* a-b.vec
fileB == <<"b">> \o vecSuffix                   \* b.vec
fileSca == <<"a", ".", "s", "c", "a">>          \* a.sca
NamePool == {fileA, fileAB, fileB, fileSca}

NoCap == [given |-> FALSE, n |-> 0]
CapPool == {NoCap} \cup {[given |-> TRUE, n |-> k] : k \in (0 - 1)..MaxCap}

patR == <<"r", ".", "*">>        \* r.*
patOColon == <<"O", ":">>        \* O:
patGm == <<"G", "M">>            \* GM
patNone == <<"z", "z">>          \* zz
MetricPool == {<<patR>>, <<patOColon>>, <<patNone>>, <<patGm, patOColon>>}

(***************************************************************************)
(* The state machine                                                       *)
(***************************************************************************)
\* the state once the command line is parsed, before the files are listed
InitWith(d, mr, me) ==
    /\ dir = d
    /\ max_runs = mr
    /\ metric = me
    /\ vec_files = <<>>
    /\ fi = 0
    /\ read = <<>>
    /\ run_name = <<>>
    /\ id_meta = EmptyMap
    /\ rows = <<>>
    /\ frames = <<>>
    /\ df_all = <<>>
    /\ df = <<>>
    /\ groups = <<>>
    /\ images = EmptyMap
    /\ pc = "list"
    /\ err = ""

\* vec_files = sorted(glob); if args.max_runs: vec_files = vec_files[:max_runs]
ListVecFiles ==
    /\ pc = "list"
    /\ vec_files' = CapRuns(Sorted(Glob(dir)), max_runs)
    /\ pc' = "load"
    /\ UNCHANGED <<dir, max_runs, metric, fi, read, run_name, id_meta, rows,
                   frames, df_all, df, groups, images, err>>

\* OpenFile, were id_meta kept from the file before
OpenFile_keepMeta ==
    /\ pc = "load"
    /\ fi < Len(vec_files)
    /\ fi' = fi + 1
    /\ read' = Append(read, <<>>)
    /\ run_name' = Stem(vec_files[fi + 1])
    /\ rows' = <<>>
    /\ pc' = "parse"
    /\ UNCHANGED <<dir, max_runs, metric, vec_files, id_meta, frames, df_all, df,
                   groups, images, err>>

\* the generator calls parse_vec on the next file: id_meta, rows = {}, [];
\* run_name = file.stem; file.open()
OpenFile ==
    /\ pc = "load"
    /\ fi < Len(vec_files)
    /\ fi' = fi + 1
    /\ read' = Append(read, <<>>)
    /\ run_name' = Stem(vec_files[fi + 1])
    /\ id_meta' = EmptyMap
    /\ rows' = <<>>
    /\ pc' = "parse"
    /\ UNCHANGED <<dir, max_runs, metric, vec_files, frames, df_all, df, groups,
                   images, err>>

\* one turn of `for line in f`
ReadLine(line, budget) ==
    /\ pc = "parse"
    /\ TotalLen(read) < budget
    /\ LET r == ParseLine(id_meta, rows, run_name, line)
       IN  /\ id_meta' = r.id_meta
           /\ rows' = r.rows
           /\ err' = r.err
           /\ pc' = IF r.err = "" THEN "parse" ELSE "crashed"
    /\ read' = [read EXCEPT ![fi] = Append(@, line)]
    /\ UNCHANGED <<dir, max_runs, metric, vec_files, fi, run_name, frames,
                   df_all, df, groups, images>>

\* end of file: return pd.DataFrame(rows)
EndOfFile ==
    /\ pc = "parse"
    /\ frames' = Append(frames, rows)
    /\ pc' = "load"
    /\ UNCHANGED <<dir, max_runs, metric, vec_files, fi, read, run_name,
                   id_meta, rows, df_all, df, groups, images, err>>

\* pd.concat of what the generator yielded, then the df_all.empty test
Concat ==
    /\ pc = "load"
    /\ fi = Len(vec_files)
    /\ IF frames = <<>>
       THEN /\ pc' = "crashed"
            /\ err' = "ValueError: No objects to concatenate"
            /\ UNCHANGED df_all
       ELSE /\ df_all' = ConcatFrames(frames)
            /\ IF ConcatFrames(frames) = <<>>
               THEN /\ pc' = "exit"
                    /\ err' = "SystemExit: Nenhum dado valido encontrado nos .vec"
               ELSE /\ pc' = "filter"
                    /\ UNCHANGED err
    /\ UNCHANGED <<dir, max_runs, metric, vec_files, fi, read, run_name,
                   id_meta, rows, frames, df, groups, images>>

\* the metric filter, then the df.empty test; groupby fixes the groups
Filter ==
    /\ pc = "filter"
    /\ df' = FilterRows(df_all, metric)
    /\ IF FilterRows(df_all, metric) = <<>>
       THEN /\ pc' = "exit"
            /\ err' = "SystemExit: Nenhuma amostra bateu com as expressoes"
            /\ UNCHANGED groups
       ELSE /\ pc' = "plot"
            /\ groups' = GroupKeys(FilterRows(df_all, metric))
            /\ UNCHANGED err
    /\ UNCHANGED <<dir, max_runs, metric, vec_files, fi, read, run_name,
                   id_meta, rows, frames, df_all, images>>

\* one turn of the loop over the (run, metric) groups: draw and savefig
PlotGroup ==
    /\ pc = "plot"
    /\ groups # <<>>
    /\ LET key == Head(groups)
       IN  images' = MapPut(images, FileName(key.run, key.metric), Chart(df, key))
    /\ groups' = Tail(groups)
    /\ UNCHANGED <<dir, max_runs, metric, vec_files, fi, read, run_name,
                   id_meta, rows, frames, df_all, df, pc, err>>

\* the loop is over: the closing message
Finish ==
    /\ pc = "plot"
    /\ groups = <<>>
    /\ pc' = "done"
    /\ UNCHANGED <<dir, max_runs, metric, vec_files, fi, read, run_name,
                   id_meta, rows, frames, df_all, df, groups, images, err>>

\* one file, any lines of LinePool: parse_vec in full
InitParse == InitWith({fileA}, NoCap, <<patR>>)
NextParse ==
    \/ ListVecFiles
    \/ OpenFile
    \/ \E line \in LinePool : ReadLine(line, MaxLines)
    \/ EndOfFile
    \/ Concat
    \/ Filter
    \/ PlotGroup
    \/ Finish
SpecParse == InitParse /\ [][NextParse]_vars

\* any directory and any --max-runs: listing, loading and concatenating
InitLoad ==
    \E d \in SUBSET NamePool, mr \in CapPool :
        /\ Cardinality(Glob(d)) <= MaxFiles
        /\ InitWith(d, mr, <<patR>>)
NextLoad ==
    \/ ListVecFiles
    \/ OpenFile
    \/ \E line \in LoadPool : ReadLine(line, MaxLoadLines)
    \/ EndOfFile
    \/ Concat
    \/ Filter
    \/ PlotGroup
    \/ Finish
SpecLoad == InitLoad /\ [][NextLoad]_vars

\* any --metric list: filtering and plotting
InitPlot ==
    \E d \in {{fileA}, {fileB, fileA, fileSca}}, me \in MetricPool :
        InitWith(d, NoCap, me)
NextPlot ==
    \/ ListVecFiles
    \/ OpenFile
    \/ \E line \in PlotPool : ReadLine(line, MaxPlotLines)
    \/ EndOfFile
    \/ Concat
    \/ Filter
    \/ PlotGroup
    \/ Finish
SpecPlot == InitPlot /\ [][NextPlot]_vars

(***************************************************************************)
(* What the claims speak of, stated over the lines read (read) and not     *)
(* over parse_vec's own steps.  A header is a line whose text starts with  *)
(* "vector"; C10 is where first-field-is-"vector" is told apart from it.   *)
(***************************************************************************)
FloatError == "ValueError: could not convert string to float"
ConcatError == "ValueError: No objects to concatenate"
NoDataExit == "SystemExit: Nenhum dado valido encontrado nos .vec"
NoMatchExit == "SystemExit: Nenhuma amostra bateu com as expressoes"

\* the whitespace-separated fields of an input line (tabulated once for
\* the lines the specifications draw from)
FieldsOf == [l \in LinePool \cup LoadPool \cup PlotPool |-> Split(l)]
Fields(l) == FieldsOf[l]

TextStartsWithVector(l) == Len(l) >= 6 /\ SubSeq(l, 1, 6) = vectorKw
FirstFieldIsVector(l) == Len(Fields(l)) >= 1 /\ Fields(l)[1] = vectorKw
FirstCharIsDigit(l) == l # <<>> /\ l[1] \in {"0", "1", "2", "3", "4", "5", "6", "7", "8", "9"}

\* a well-formed header for identifier id
HeaderOf(l, id) == TextStartsWithVector(l) /\ Len(Fields(l)) >= 4 /\ Fields(l)[2] = id
\* a header with fewer than 4 fields; one that names identifier id
ShortHeader(l) == TextStartsWithVector(l) /\ Len(Fields(l)) < 4
ShortHeaderOf(l, id) == ShortHeader(l) /\ Len(Fields(l)) >= 2 /\ Fields(l)[2] = id
\* a data line with its 4 fields; its identifier
DataLine(l) == FirstCharIsDigit(l) /\ Len(Fields(l)) >= 4
IdOf(l) == Fields(l)[1]
Numeric(l) == FloatOk(Fields(l)[3]) /\ FloatOk(Fields(l)[4])

\* line j of ls is a data line whose identifier has a header before it
Qualifies(ls, j) ==
    /\ DataLine(ls[j])
    /\ \E i \in 1..(j - 1) : HeaderOf(ls[i], IdOf(ls[j]))
QualSet(ls) == {j \in 1..Len(ls) : Qualifies(ls, j)}

\* the row the claim gives line j: metadata of the latest header before it
RowOf(ls, j, stem) ==
    LET h == CHOOSE i \in 1..(j - 1) :
                 /\ HeaderOf(ls[i], IdOf(ls[j]))
                 /\ \A k \in (i + 1)..(j - 1) : ~HeaderOf(ls[k], IdOf(ls[j]))
    IN  [time   |-> FloatVal(Fields(ls[j])[3]),
         value  |-> FloatVal(Fields(ls[j])[4]),
         module |-> Fields(ls[h])[3],
         metric |-> Fields(ls[h])[4],
         run    |-> stem]

\* the n-th smallest member of a set of numbers
Nth(S, n) == CHOOSE j \in S : Cardinality({k \in S : k < j}) = n - 1

\* rs is one row per qualifying line of ls, in line order, and nothing else
RowsAsClaimed(rs, ls, stem) ==
    /\ Len(rs) = Cardinality(QualSet(ls))
    /\ \A n \in 1..Len(rs) : rs[n] = RowOf(ls, Nth(QualSet(ls), n), stem)

\* the stem of a .vec name: the name without ".vec"
StemOfVec(name) == SubSeq(name, 1, Len(name) - 4)

\* parse_vec on the k-th file is over; it has returned
Ended(k) == k < fi \/ (k = fi /\ pc # "parse")
Returned(k) == k <= Len(frames)

\* this step read one more line of the current file; that line
JustRead == pc = "parse" /\ fi' = fi /\ Len(read'[fi]) = Len(read[fi]) + 1
NewLine == read'[fi][Len(read'[fi])]

C3_Original ==
    [][JustRead =>
          /\ ShortHeader(NewLine) =>
                 id_meta' = id_meta /\ rows' = rows /\ err' = "" /\ pc' = "parse"
          /\ (/\ FirstCharIsDigit(NewLine)
              /\ Len(Fields(NewLine)) >= 1
              /\ \E i \in 1..Len(read[fi]) : ShortHeaderOf(read[fi][i], IdOf(NewLine)))
             => rows' = rows]_vars

\* C3, amended: a header line with fewer than 4 fields changes neither
\* id_meta nor the rows and raises nothing, and a data line read after it
\* for the identifier it names adds no row and raises nothing unless a
\* well-formed header for that identifier precedes the data line.
C3_ShortHeaderIgnored ==
    [][JustRead =>
          /\ ShortHeader(NewLine) =>
                 id_meta' = id_meta /\ rows' = rows /\ err' = "" /\ pc' = "parse"
          /\ (/\ FirstCharIsDigit(NewLine)
              /\ Len(Fields(NewLine)) >= 1
              /\ \E i \in 1..Len(read[fi]) : ShortHeaderOf(read[fi][i], IdOf(NewLine))
              /\ ~\E i \in 1..Len(read[fi]) : HeaderOf(read[fi][i], IdOf(NewLine)))
             => rows' = rows /\ err' = "" /\ pc' = "parse"]_vars

\* "vector 1 mA" then "1 0 0.5 12.3" have been read: no entry, no row
C3_Witness ==
    /\ pc = "parse"
    /\ read = << <<hdrShort, dat1>> >>
    /\ id_meta = EmptyMap
    /\ rows = <<>>

(***************************************************************************)
(* C5                                                                      *)
(***************************************************************************)
\* C5 as stated: every data line (digit first, 4 fields) whose time or
\* value is not a float ends the run with the float error, whatever its
\* identifier, and nothing else raises that error.
C5_Original ==
    /\ \A k \in 1..Len(read) : \A j \in 1..Len(read[k]) :
           (DataLine(read[k][j]) /\ ~Numeric(read[k][j])) =>
               pc = "crashed" /\ err = FloatError /\ k = fi /\ j = Len(read[k])
    /\ err = FloatError =>
           /\ pc = "crashed" /\ fi >= 1 /\ read[fi] # <<>>
           /\ DataLine(read[fi][Len(read[fi])])
           /\ ~Numeric(read[fi][Len(read[fi])])

\* C5, amended: a data line whose identifier has a well-formed header
\* earlier in the same file and whose time or value is not a float ends the
\* run with the float error (no table, no filtering, no image); no other
\* line raises it, a non-numeric data line of an unknown identifier included.
C5_FloatErrorAborts ==
    /\ \A k \in 1..Len(read) : \A j \in 1..Len(read[k]) :
           (Qualifies(read[k], j) /\ ~Numeric(read[k][j])) =>
               pc = "crashed" /\ err = FloatError /\ k = fi /\ j = Len(read[k])
    /\ err = FloatError =>
           /\ pc = "crashed" /\ fi >= 1 /\ read[fi] # <<>>
           /\ Qualifies(read[fi], Len(read[fi]))
           /\ ~Numeric(read[fi][Len(read[fi])])
           /\ Len(frames) = fi - 1 /\ df_all = <<>> /\ df = <<>> /\ images = EmptyMap

\* "2 0 1 x" (unknown identifier) was read without error, then
\* "vector 1 mA o:R E" and "1 0 x 1", which ended the run
C5_Witness ==
    /\ pc = "crashed"
    /\ err = FloatError
    /\ read = << <<datBadValue, hdr1, datBadTime>> >>

(***************************************************************************)
(* C10                                                                     *)
(***************************************************************************)
\* C10: a line changes id_meta only if its first whitespace-separated field
\* is exactly "vector", changes the rows only if its first character is a
\* digit, and a line that is neither changes neither.
C10_LineClasses ==
    [][JustRead =>
          /\ id_meta' # id_meta => FirstFieldIsVector(NewLine)
          /\ rows' # rows => FirstCharIsDigit(NewLine)
          /\ (~FirstFieldIsVector(NewLine) /\ ~FirstCharIsDigit(NewLine)) =>
                 id_meta' = id_meta /\ rows' = rows]_vars

(***************************************************************************)
(* C2                                                                      *)
(***************************************************************************)
\* C2: over any sequence of files, id_meta is empty when a file is opened
\* and holds only identifiers with a header in that file, every row of a
\* file has the module and metric of a header that precedes a data line of
\* its identifier in that same file (and the file's stem as run), and a
\* file has no more rows than data lines with a header before them in it.
C2_MetadataFromSameFile ==
    /\ (pc = "parse" /\ read[fi] = <<>>) => id_meta = EmptyMap
    /\ pc = "parse" =>
           \A id \in DOMAIN id_meta : \E i \in 1..Len(read[fi]) : HeaderOf(read[fi][i], id)
    /\ \A k \in 1..fi :
           LET rs == IF Returned(k) THEN frames[k] ELSE rows
               ls == read[k]
           IN  /\ \A n \in 1..Len(rs) :
                      \E j \in 1..Len(ls) : \E i \in 1..(j - 1) :
                          /\ DataLine(ls[j])
                          /\ HeaderOf(ls[i], IdOf(ls[j]))
                          /\ rs[n].module = Fields(ls[i])[3]
                          /\ rs[n].metric = Fields(ls[i])[4]
                          /\ rs[n].run = StemOfVec(vec_files[k])
               /\ Len(rs) <= Cardinality(QualSet(ls))

\* a-b.vec declared identifier 1 and gave a row; a.vec, parsed next, holds
\* only "1 0 0.5 12.3" and gave none
C2_Witness ==
    /\ pc = "load"
    /\ vec_files = <<fileAB, fileA>>
    /\ read = << <<hdr1, dat1>>, <<dat1>> >>
    /\ Len(frames) = 2
    /\ Len(frames[1]) = 1
    /\ frames[2] = <<>>

(***************************************************************************)
(* C4                                                                      *)
(***************************************************************************)
\* C4: when loading is over and there are no rows (no input file, or no
\* file gave a row), the run has ended with the "no valid data" SystemExit,
\* without filtering and without any image written.
C4_EmptyInputExits ==
    (pc \notin {"list", "load", "parse"} /\ err # FloatError /\ TotalLen(frames) = 0) =>
        /\ pc = "exit"
        /\ err = NoDataExit
        /\ df = <<>>
        /\ images = EmptyMap

(***************************************************************************)
(* C6                                                                      *)
(***************************************************************************)
Matching(d) == {x \in d : Len(x) >= 4 /\ SubSeq(x, Len(x) - 3, Len(x)) = vecSuffix}
RankIn(S, x) == Cardinality({y \in S : StrLess(y, x)}) + 1
Least(a, b) == IF a < b THEN a ELSE b

\* C6: with --max-runs N (N >= 0) the files parsed are the first N of the
\* sorted list of matching files, so at most N; with --max-runs unset
\* they are all the matching files, sorted.
C6_MaxRunsCaps ==
    pc # "list" =>
        /\ \A i \in 1..Len(vec_files) :
               vec_files[i] \in Matching(dir) /\ RankIn(Matching(dir), vec_files[i]) = i
        /\ (max_runs.given /\ max_runs.n >= 0) =>
               Len(vec_files) = Least(max_runs.n, Cardinality(Matching(dir)))
        /\ ~max_runs.given => Len(vec_files) = Cardinality(Matching(dir))

(***************************************************************************)
(* C9                                                                      *)
(***************************************************************************)
\* C9: once df_all is built it is the files' tables one after the other in
\* the order of vec_files, which is sorted: each file's table is the claimed
\* rows of its lines, each appears once at its place, and each row's run
\* is the stem of the file it came from.
C9_ConcatInFileOrder ==
    pc \in {"filter", "plot", "done", "exit"} =>
        /\ Len(frames) = Len(vec_files)
        /\ \A k \in 1..(Len(vec_files) - 1) : StrLess(vec_files[k], vec_files[k + 1])
        /\ Len(df_all) = TotalLen(frames)
        /\ \A k \in 1..Len(frames) :
               /\ RowsAsClaimed(frames[k], read[k], StemOfVec(vec_files[k]))
               /\ \A n \in 1..Len(frames[k]) :
                      /\ df_all[TotalLen(SubSeq(frames, 1, k - 1)) + n] = frames[k][n]
                      /\ frames[k][n].run \o vecSuffix = vec_files[k]

\* a-b.vec and a.vec each gave one row; df_all holds a-b's, then a's
C9_Witness ==
    /\ pc = "filter"
    /\ vec_files = <<fileAB, fileA>>
    /\ Len(df_all) = 2
    /\ df_all[1].run = <<"a", "-", "b">>
    /\ df_all[2].run = <<"a">>

(***************************************************************************)
(* C7                                                                      *)
(***************************************************************************)
\* what a pattern "text" or "text.*" finds: text, in any case, anywhere
PatternText(p) ==
    IF Len(p) >= 2 /\ p[Len(p) - 1] = "." /\ p[Len(p)] = "*"
    THEN SubSeq(p, 1, Len(p) - 2)
    ELSE p
FoundIn(p, m) ==
    \E i \in 0..(Len(m) - Len(PatternText(p))) :
        \A k \in 1..Len(PatternText(p)) : Lower(m[i + k]) = Lower(PatternText(p)[k])
Kept(r) == \E i \in 1..Len(metric) : FoundIn(metric[i], r.metric)

\* C7: the filtered table is the rows of df_all whose metric some pattern
\* finds (case-insensitively, anywhere), unchanged and in order; when none
\* is found the run exits with the "no sample matched" message and no
\* image is ever written.
C7_MetricFilter ==
    /\ pc \in {"plot", "done"} => df = SelectSeq(df_all, Kept) /\ df # <<>>
    /\ (pc = "exit" /\ err = NoMatchExit) =>
           df_all # <<>> /\ SelectSeq(df_all, Kept) = <<>> /\ images = EmptyMap
    /\ (df_all # <<>> /\ SelectSeq(df_all, Kept) = <<>>) =>
           pc \in {"filter", "exit"} /\ images = EmptyMap

\* --metric GM --metric O: kept the o:R rows (found by "O:" in another
\* case) and dropped the o_R rows
C7_Witness ==
    /\ pc = "plot"
    /\ metric = <<patGm, patOColon>>
    /\ df # <<>>
    /\ Len(df) < Len(df_all)
    /\ \A i \in 1..Len(df) : df[i].metric = metOR

(***************************************************************************)
(* C8                                                                      *)
(***************************************************************************)
ClaimedName(run, m) ==
    run \o <<"_">> \o [i \in 1..Len(m) |-> IF m[i] = ":" THEN "_" ELSE m[i]] \o pngSuffix
Pairs == {<<df[i].run, df[i].metric>> : i \in 1..Len(df)}

\* C8: after a successful run the image files are in one-to-one
\* correspondence with the (run, metric) pairs of the filtered table, each
\* named <run>_<metric with ':' replaced by '_'>.png and holding one line
\* per module of its pair.
C8_OneImagePerPair ==
    pc = "done" =>
        /\ Cardinality(DOMAIN images) = Cardinality(Pairs)
        /\ \A p \in Pairs :
               /\ ClaimedName(p[1], p[2]) \in DOMAIN images
               /\ images[ClaimedName(p[1], p[2])].title = [run |-> p[1], metric |-> p[2]]
               /\ {images[ClaimedName(p[1], p[2])].series[i].label :
                       i \in 1..Len(images[ClaimedName(p[1], p[2])].series)}
                  = {df[i].module : i \in {n \in 1..Len(df) :
                                              df[n].run = p[1] /\ df[n].metric = p[2]}}

====
